---------------------------- MODULE Spec2Model ----------------------------
(***************************************************************************)
(* A model of the NAEP geo worker (src/src/worker.ts): the request router, *)
(* the memoized dataset loader, the record selector, the ratio-to-image    *)
(* mapping, the image existence probe and the page renderer.               *)
(*                                                                         *)
(* JavaScript strings are sequences of one-character strings, so that the  *)
(* regular expressions, split and escapeHtml are computed character by     *)
(* character.  The one non-ASCII character of the templates, the em dash,  *)
(* is the atom "U+2014".  A page is a sequence whose elements are either   *)
(* characters (everything that is interpolated) or whole chunks of the     *)
(* fixed template text (strings of more than one character).               *)
(***************************************************************************)
EXTENDS Integers, Sequences, FiniteSets, TLC

(***************************************************************************)
(* JavaScript values                                                       *)
(***************************************************************************)
Undefined == [t |-> "undefined"]
Null == [t |-> "null"]
Str(s) == [t |-> "string", s |-> s]
Num(n) == [t |-> "number", n |-> n]
\* A plain object (as JSON.parse or an object literal makes it): own
\* properties o, prototype Object.prototype.
Obj(o) == [t |-> "object", o |-> o]
EmptyProps == [k \in {} |-> Undefined]
\* The value of Object.prototype[k], which every plain object inherits.
Inherited(k) == [t |-> "inherited", k |-> k]

K_constructor == <<"c", "o", "n", "s", "t", "r", "u", "c", "t", "o", "r">>
K_toString == <<"t", "o", "S", "t", "r", "i", "n", "g">>
K_valueOf == <<"v", "a", "l", "u", "e", "O", "f">>
K_hasOwnProperty == <<"h", "a", "s", "O", "w", "n", "P", "r", "o", "p", "e", "r", "t", "y">>
K_proto == <<"_", "_", "p", "r", "o", "t", "o", "_", "_">>
K_national == <<"n", "a", "t", "i", "o", "n", "a", "l">>
K_states == <<"s", "t", "a", "t", "e", "s">>
K_US == <<"U", "S">>
K_text == <<"t", "e", "x", "t">>
K_country == <<"c", "o", "u", "n", "t", "r", "y">>
K_regionCode == <<"r", "e", "g", "i", "o", "n", "C", "o", "d", "e">>

(***************************************************************************)
(* Characters and regular expressions                                      *)
(***************************************************************************)
DigitChars == {"0", "1", "2", "3", "4", "5", "6", "7", "8", "9"}
\* \s: the ASCII white space (the vertical tab is the atom "U+000B") and
\* the other white space and line terminators of Unicode, each an atom.
SpaceChars ==
    {" ", "\t", "\n", "\r", "\f", "U+000B",
     "U+00A0", "U+1680", "U+2000", "U+2001", "U+2002", "U+2003", "U+2004",
     "U+2005", "U+2006", "U+2007", "U+2008", "U+2009", "U+200A", "U+2028",
     "U+2029", "U+202F", "U+205F", "U+3000", "U+FEFF"}

\* The index just after the longest run of characters of S that starts at i.
RunEnd(s, i, S) ==
    CHOOSE j \in i..(Len(s) + 1) :
        /\ \A k \in i..(j - 1) : s[k] \in S
        /\ (j = Len(s) + 1 \/ s[j] \notin S)

\* Whether the literal lit occurs in s at index i.
LitAt(s, i, lit) ==
    /\ i + Len(lit) - 1 <= Len(s)
    /\ \A k \in 1..Len(lit) : s[i + k - 1] = lit[k]

OUT_OF == <<" ", "o", "u", "t", " ", "o", "f", " ">>

\* TEXT_RE.test(s) for TEXT_RE = /^\d+ out of \d+$/
TEXT_RE(s) ==
    LET a == RunEnd(s, 1, DigitChars)
        b == a + Len(OUT_OF)
    IN  /\ a > 1
        /\ LitAt(s, a, OUT_OF)
        /\ RunEnd(s, b, DigitChars) > b
        /\ RunEnd(s, b, DigitChars) = Len(s) + 1

DigitValue(c) ==
    CASE c = "0" -> 0 [] c = "1" -> 1 [] c = "2" -> 2 [] c = "3" -> 3
      [] c = "4" -> 4 [] c = "5" -> 5 [] c = "6" -> 6 [] c = "7" -> 7
      [] c = "8" -> 8 [] c = "9" -> 9

\* Number(ds) for a string of decimal digits (exact below 2^53).
RECURSIVE Number(_)
Number(ds) ==
    IF ds = <<>> THEN 0
    ELSE 10 * Number(SubSeq(ds, 1, Len(ds) - 1)) + DigitValue(ds[Len(ds)])

K_isPrototypeOf == <<"i", "s", "P", "r", "o", "t", "o", "t", "y", "p", "e", "O", "f">>
K_propertyIsEnumerable == <<"p", "r", "o", "p", "e", "r", "t", "y", "I", "s", "E", "n", "u", "m", "e", "r", "a", "b", "l", "e">>
K_toLocaleString == <<"t", "o", "L", "o", "c", "a", "l", "e", "S", "t", "r", "i", "n", "g">>
K_defineGetter == <<"_", "_", "d", "e", "f", "i", "n", "e", "G", "e", "t", "t", "e", "r", "_", "_">>
K_defineSetter == <<"_", "_", "d", "e", "f", "i", "n", "e", "S", "e", "t", "t", "e", "r", "_", "_">>
K_lookupGetter == <<"_", "_", "l", "o", "o", "k", "u", "p", "G", "e", "t", "t", "e", "r", "_", "_">>
K_lookupSetter == <<"_", "_", "l", "o", "o", "k", "u", "p", "S", "e", "t", "t", "e", "r", "_", "_">>
K_length == <<"l", "e", "n", "g", "t", "h">>
K_name == <<"n", "a", "m", "e">>
K_prototype == <<"p", "r", "o", "t", "o", "t", "y", "p", "e">>
K_arguments == <<"a", "r", "g", "u", "m", "e", "n", "t", "s">>
K_caller == <<"c", "a", "l", "l", "e", "r">>

\* Object.getOwnPropertyNames(Object.prototype): the names every plain
\* object answers through its prototype chain.
ObjectPrototypeKeys ==
    {K_constructor, K_toString, K_valueOf, K_hasOwnProperty, K_isPrototypeOf,
     K_propertyIsEnumerable, K_toLocaleString, K_proto, K_defineGetter,
     K_defineSetter, K_lookupGetter, K_lookupSetter}

\* The methods String.prototype adds to those of Object.prototype (it
\* overrides constructor, toString and valueOf; toLocaleString is the one
\* of Object.prototype).
StringPrototypeKeys ==
    { <<"a", "t">>,
      <<"a", "n", "c", "h", "o", "r">>,
      <<"b", "i", "g">>,
      <<"b", "l", "i", "n", "k">>,
      <<"b", "o", "l", "d">>,
      <<"c", "h", "a", "r", "A", "t">>,
      <<"c", "h", "a", "r", "C", "o", "d", "e", "A", "t">>,
      <<"c", "o", "d", "e", "P", "o", "i", "n", "t", "A", "t">>,
      <<"c", "o", "n", "c", "a", "t">>,
      <<"e", "n", "d", "s", "W", "i", "t", "h">>,
      <<"f", "i", "x", "e", "d">>,
      <<"f", "o", "n", "t", "c", "o", "l", "o", "r">>,
      <<"f", "o", "n", "t", "s", "i", "z", "e">>,
      <<"i", "n", "c", "l", "u", "d", "e", "s">>,
      <<"i", "n", "d", "e", "x", "O", "f">>,
      <<"i", "s", "W", "e", "l", "l", "F", "o", "r", "m", "e", "d">>,
      <<"i", "t", "a", "l", "i", "c", "s">>,
      <<"l", "a", "s", "t", "I", "n", "d", "e", "x", "O", "f">>,
      <<"l", "i", "n", "k">>,
      <<"l", "o", "c", "a", "l", "e", "C", "o", "m", "p", "a", "r", "e">>,
      <<"m", "a", "t", "c", "h">>,
      <<"m", "a", "t", "c", "h", "A", "l", "l">>,
      <<"n", "o", "r", "m", "a", "l", "i", "z", "e">>,
      <<"p", "a", "d", "E", "n", "d">>,
      <<"p", "a", "d", "S", "t", "a", "r", "t">>,
      <<"r", "e", "p", "e", "a", "t">>,
      <<"r", "e", "p", "l", "a", "c", "e">>,
      <<"r", "e", "p", "l", "a", "c", "e", "A", "l", "l">>,
      <<"s", "e", "a", "r", "c", "h">>,
      <<"s", "l", "i", "c", "e">>,
      <<"s", "m", "a", "l", "l">>,
      <<"s", "p", "l", "i", "t">>,
      <<"s", "t", "r", "i", "k", "e">>,
      <<"s", "u", "b">>,
      <<"s", "u", "b", "s", "t", "r">>,
      <<"s", "u", "b", "s", "t", "r", "i", "n", "g">>,
      <<"s", "u", "p">>,
      <<"s", "t", "a", "r", "t", "s", "W", "i", "t", "h">>,
      <<"t", "o", "L", "o", "w", "e", "r", "C", "a", "s", "e">>,
      <<"t", "o", "U", "p", "p", "e", "r", "C", "a", "s", "e">>,
      <<"t", "o", "L", "o", "c", "a", "l", "e", "L", "o", "w", "e", "r", "C", "a", "s", "e">>,
      <<"t", "o", "L", "o", "c", "a", "l", "e", "U", "p", "p", "e", "r", "C", "a", "s", "e">>,
      <<"t", "o", "W", "e", "l", "l", "F", "o", "r", "m", "e", "d">>,
      <<"t", "r", "i", "m">>,
      <<"t", "r", "i", "m", "S", "t", "a", "r", "t">>,
      <<"t", "r", "i", "m", "E", "n", "d">>,
      <<"t", "r", "i", "m", "L", "e", "f", "t">>,
      <<"t", "r", "i", "m", "R", "i", "g", "h", "t">> }

\* The methods Number.prototype adds.
NumberPrototypeKeys ==
    { <<"t", "o", "E", "x", "p", "o", "n", "e", "n", "t", "i", "a", "l">>,
      <<"t", "o", "F", "i", "x", "e", "d">>,
      <<"t", "o", "P", "r", "e", "c", "i", "s", "i", "o", "n">> }

\* The methods Function.prototype adds.
FunctionPrototypeKeys ==
    { <<"a", "p", "p", "l", "y">>,
      <<"b", "i", "n", "d">>,
      <<"c", "a", "l", "l">> }

\* The static methods of the Object constructor.
ObjectStaticKeys ==
    { <<"a", "s", "s", "i", "g", "n">>,
      <<"c", "r", "e", "a", "t", "e">>,
      <<"d", "e", "f", "i", "n", "e", "P", "r", "o", "p", "e", "r", "t", "i", "e", "s">>,
      <<"d", "e", "f", "i", "n", "e", "P", "r", "o", "p", "e", "r", "t", "y">>,
      <<"e", "n", "t", "r", "i", "e", "s">>,
      <<"f", "r", "e", "e", "z", "e">>,
      <<"f", "r", "o", "m", "E", "n", "t", "r", "i", "e", "s">>,
      <<"g", "e", "t", "O", "w", "n", "P", "r", "o", "p", "e", "r", "t", "y", "D", "e", "s", "c", "r", "i", "p", "t", "o", "r">>,
      <<"g", "e", "t", "O", "w", "n", "P", "r", "o", "p", "e", "r", "t", "y", "D", "e", "s", "c", "r", "i", "p", "t", "o", "r", "s">>,
      <<"g", "e", "t", "O", "w", "n", "P", "r", "o", "p", "e", "r", "t", "y", "N", "a", "m", "e", "s">>,
      <<"g", "e", "t", "O", "w", "n", "P", "r", "o", "p", "e", "r", "t", "y", "S", "y", "m", "b", "o", "l", "s">>,
      <<"g", "e", "t", "P", "r", "o", "t", "o", "t", "y", "p", "e", "O", "f">>,
      <<"h", "a", "s", "O", "w", "n">>,
      <<"i", "s">>,
      <<"i", "s", "E", "x", "t", "e", "n", "s", "i", "b", "l", "e">>,
      <<"i", "s", "F", "r", "o", "z", "e", "n">>,
      <<"i", "s", "S", "e", "a", "l", "e", "d">>,
      <<"k", "e", "y", "s">>,
      <<"p", "r", "e", "v", "e", "n", "t", "E", "x", "t", "e", "n", "s", "i", "o", "n", "s">>,
      <<"s", "e", "a", "l">>,
      <<"s", "e", "t", "P", "r", "o", "t", "o", "t", "y", "p", "e", "O", "f">>,
      <<"v", "a", "l", "u", "e", "s">> }

\* A member of a built-in object other than Object.prototype.
Builtin(owner, k) == [t |-> "builtin", owner |-> owner, k |-> k]

\* The outcome of an evaluation that throws a TypeError.
TypeError == [t |-> "throw", error |-> "TypeError"]
IsThrown(x) == "t" \in DOMAIN x /\ x.t = "throw"

\* Whether k is the canonical decimal form of an index below n.
IsIndex(k, n) ==
    /\ k # <<>>
    /\ \A i \in 1..Len(k) : k[i] \in DigitChars
    /\ (Len(k) = 1 \/ k[1] # "0")
    /\ Number(k) < n

\* The name and the length of the function Object.prototype[k].
FunctionName(k) == IF k = K_constructor THEN <<"O", "b", "j", "e", "c", "t">> ELSE k
FunctionLength(k) ==
    IF k \in {K_toString, K_valueOf, K_toLocaleString} THEN 0
    ELSE IF k \in {K_defineGetter, K_defineSetter} THEN 2
    ELSE 1

\* v[k] for a plain object, a string, a number, Object.prototype or one of
\* its functions.  Reading a property of null or undefined throws a
\* TypeError, and so do the arguments and caller accessors of
\* Function.prototype on a built-in function.
Get(v, k) ==
    CASE v.t \in {"undefined", "null"} -> TypeError
      [] v.t = "throw" -> v
      [] v.t = "object" ->
            IF k \in DOMAIN v.o THEN v.o[k]
            ELSE IF k \in ObjectPrototypeKeys THEN Inherited(k)
            ELSE Undefined
      [] v.t = "string" ->
            IF k = K_length THEN Num(Len(v.s))
            ELSE IF IsIndex(k, Len(v.s)) THEN Str(<<v.s[Number(k) + 1]>>)
            ELSE IF k \in StringPrototypeKeys
                        \cup {K_constructor, K_toString, K_valueOf}
            THEN Builtin("String.prototype", k)
            ELSE IF k = K_proto THEN Builtin("String", K_prototype)
            ELSE IF k \in ObjectPrototypeKeys THEN Inherited(k)
            ELSE Undefined
      [] v.t = "number" ->
            IF k \in NumberPrototypeKeys
                        \cup {K_constructor, K_toString, K_valueOf, K_toLocaleString}
            THEN Builtin("Number.prototype", k)
            ELSE IF k = K_proto THEN Builtin("Number", K_prototype)
            ELSE IF k \in ObjectPrototypeKeys THEN Inherited(k)
            ELSE Undefined
      [] v.t = "inherited" /\ v.k = K_proto ->
            \* Object.prototype itself, whose prototype is null
            IF k = K_proto THEN Null
            ELSE IF k \in ObjectPrototypeKeys THEN Inherited(k)
            ELSE Undefined
      [] v.t = "inherited" /\ v.k # K_proto ->
            \* a function of Object.prototype; Inherited(K_constructor)
            \* is the Object constructor
            IF k = K_name THEN Str(FunctionName(v.k))
            ELSE IF k = K_length THEN Num(FunctionLength(v.k))
            ELSE IF v.k = K_constructor /\ k = K_prototype THEN Inherited(K_proto)
            ELSE IF v.k = K_constructor /\ k \in ObjectStaticKeys
            THEN Builtin("Object", k)
            ELSE IF k \in {K_arguments, K_caller} THEN TypeError
            ELSE IF k \in FunctionPrototypeKeys \cup {K_constructor, K_toString}
            THEN Builtin("Function.prototype", k)
            ELSE IF k = K_proto THEN Builtin("Function", K_prototype)
            ELSE IF k \in ObjectPrototypeKeys THEN Inherited(k)
            ELSE Undefined

\* JavaScript truthiness.
Truthy(v) ==
    CASE v.t = "undefined" -> FALSE
      [] v.t = "null" -> FALSE
      [] v.t = "string" -> v.s # <<>>
      [] v.t = "number" -> v.n # 0
      [] OTHER -> TRUE

\* typeof v
TypeOf(v) ==
    CASE v.t = "null" -> "object"
      [] v.t = "inherited" -> IF v.k = K_proto THEN "object" ELSE "function"
      [] v.t = "builtin" -> IF v.k = K_prototype /\ v.owner # "Function"
                            THEN "object" ELSE "function"
      [] OTHER -> v.t

(***************************************************************************)
(* USPS -> full state name                                                 *)
(***************************************************************************)
StateNameTable ==
    (<<"A", "L">> :> <<"A", "l", "a", "b", "a", "m", "a">>) @@
    (<<"A", "K">> :> <<"A", "l", "a", "s", "k", "a">>) @@
    (<<"A", "Z">> :> <<"A", "r", "i", "z", "o", "n", "a">>) @@
    (<<"A", "R">> :> <<"A", "r", "k", "a", "n", "s", "a", "s">>) @@
    (<<"C", "A">> :> <<"C", "a", "l", "i", "f", "o", "r", "n", "i", "a">>) @@
    (<<"C", "O">> :> <<"C", "o", "l", "o", "r", "a", "d", "o">>) @@
    (<<"C", "T">> :> <<"C", "o", "n", "n", "e", "c", "t", "i", "c", "u", "t">>) @@
    (<<"D", "E">> :> <<"D", "e", "l", "a", "w", "a", "r", "e">>) @@
    (<<"D", "C">> :> <<"D", "i", "s", "t", "r", "i", "c", "t", " ", "o", "f", " ", "C", "o", "l", "u", "m", "b", "i", "a">>) @@
    (<<"F", "L">> :> <<"F", "l", "o", "r", "i", "d", "a">>) @@
    (<<"G", "A">> :> <<"G", "e", "o", "r", "g", "i", "a">>) @@
    (<<"H", "I">> :> <<"H", "a", "w", "a", "i", "i">>) @@
    (<<"I", "D">> :> <<"I", "d", "a", "h", "o">>) @@
    (<<"I", "L">> :> <<"I", "l", "l", "i", "n", "o", "i", "s">>) @@
    (<<"I", "N">> :> <<"I", "n", "d", "i", "a", "n", "a">>) @@
    (<<"I", "A">> :> <<"I", "o", "w", "a">>) @@
    (<<"K", "S">> :> <<"K", "a", "n", "s", "a", "s">>) @@
    (<<"K", "Y">> :> <<"K", "e", "n", "t", "u", "c", "k", "y">>) @@
    (<<"L", "A">> :> <<"L", "o", "u", "i", "s", "i", "a", "n", "a">>) @@
    (<<"M", "E">> :> <<"M", "a", "i", "n", "e">>) @@
    (<<"M", "D">> :> <<"M", "a", "r", "y", "l", "a", "n", "d">>) @@
    (<<"M", "A">> :> <<"M", "a", "s", "s", "a", "c", "h", "u", "s", "e", "t", "t", "s">>) @@
    (<<"M", "I">> :> <<"M", "i", "c", "h", "i", "g", "a", "n">>) @@
    (<<"M", "N">> :> <<"M", "i", "n", "n", "e", "s", "o", "t", "a">>) @@
    (<<"M", "S">> :> <<"M", "i", "s", "s", "i", "s", "s", "i", "p", "p", "i">>) @@
    (<<"M", "O">> :> <<"M", "i", "s", "s", "o", "u", "r", "i">>) @@
    (<<"M", "T">> :> <<"M", "o", "n", "t", "a", "n", "a">>) @@
    (<<"N", "E">> :> <<"N", "e", "b", "r", "a", "s", "k", "a">>) @@
    (<<"N", "V">> :> <<"N", "e", "v", "a", "d", "a">>) @@
    (<<"N", "H">> :> <<"N", "e", "w", " ", "H", "a", "m", "p", "s", "h", "i", "r", "e">>) @@
    (<<"N", "J">> :> <<"N", "e", "w", " ", "J", "e", "r", "s", "e", "y">>) @@
    (<<"N", "M">> :> <<"N", "e", "w", " ", "M", "e", "x", "i", "c", "o">>) @@
    (<<"N", "Y">> :> <<"N", "e", "w", " ", "Y", "o", "r", "k">>) @@
    (<<"N", "C">> :> <<"N", "o", "r", "t", "h", " ", "C", "a", "r", "o", "l", "i", "n", "a">>) @@
    (<<"N", "D">> :> <<"N", "o", "r", "t", "h", " ", "D", "a", "k", "o", "t", "a">>) @@
    (<<"O", "H">> :> <<"O", "h", "i", "o">>) @@
    (<<"O", "K">> :> <<"O", "k", "l", "a", "h", "o", "m", "a">>) @@
    (<<"O", "R">> :> <<"O", "r", "e", "g", "o", "n">>) @@
    (<<"P", "A">> :> <<"P", "e", "n", "n", "s", "y", "l", "v", "a", "n", "i", "a">>) @@
    (<<"R", "I">> :> <<"R", "h", "o", "d", "e", " ", "I", "s", "l", "a", "n", "d">>) @@
    (<<"S", "C">> :> <<"S", "o", "u", "t", "h", " ", "C", "a", "r", "o", "l", "i", "n", "a">>) @@
    (<<"S", "D">> :> <<"S", "o", "u", "t", "h", " ", "D", "a", "k", "o", "t", "a">>) @@
    (<<"T", "N">> :> <<"T", "e", "n", "n", "e", "s", "s", "e", "e">>) @@
    (<<"T", "X">> :> <<"T", "e", "x", "a", "s">>) @@
    (<<"U", "T">> :> <<"U", "t", "a", "h">>) @@
    (<<"V", "T">> :> <<"V", "e", "r", "m", "o", "n", "t">>) @@
    (<<"V", "A">> :> <<"V", "i", "r", "g", "i", "n", "i", "a">>) @@
    (<<"W", "A">> :> <<"W", "a", "s", "h", "i", "n", "g", "t", "o", "n">>) @@
    (<<"W", "V">> :> <<"W", "e", "s", "t", " ", "V", "i", "r", "g", "i", "n", "i", "a">>) @@
    (<<"W", "I">> :> <<"W", "i", "s", "c", "o", "n", "s", "i", "n">>) @@
    (<<"W", "Y">> :> <<"W", "y", "o", "m", "i", "n", "g">>)

STATE_NAME == Obj([k \in DOMAIN StateNameTable |-> Str(StateNameTable[k])])

(***************************************************************************)
(* Validation of the parsed naep.json                                      *)
(***************************************************************************)
isValidValue(v) ==
    /\ Truthy(v)
    /\ TypeOf(Get(v, K_text)) = "string"
    /\ TEXT_RE(Get(v, K_text).s)

\* A validateData without the test of the key's length.
validateData_anyKey(d) ==
    IF ~Truthy(d) \/ TypeOf(d) # "object" THEN FALSE
    ELSE IF \/ ~Truthy(Get(d, K_national))
            \/ ~Truthy(Get(Get(d, K_national), K_US))
            \/ ~isValidValue(Get(Get(d, K_national), K_US)) THEN FALSE
    ELSE IF \/ ~Truthy(Get(d, K_states))
            \/ TypeOf(Get(d, K_states)) # "object" THEN FALSE
    ELSE \A k \in DOMAIN Get(d, K_states).o :
            isValidValue(Get(d, K_states).o[k])

validateData(d) ==
    IF ~Truthy(d) \/ TypeOf(d) # "object" THEN FALSE
    ELSE IF \/ ~Truthy(Get(d, K_national))
            \/ ~Truthy(Get(Get(d, K_national), K_US))
            \/ ~isValidValue(Get(Get(d, K_national), K_US)) THEN FALSE
    ELSE IF \/ ~Truthy(Get(d, K_states))
            \/ TypeOf(Get(d, K_states)) # "object" THEN FALSE
    ELSE \A k \in DOMAIN Get(d, K_states).o :
            /\ Len(k) = 2
            /\ isValidValue(Get(d, K_states).o[k])

(***************************************************************************)
(* Region and record selection                                             *)
(***************************************************************************)
\* resolveRegion, given request.cf
resolveRegion(reqCf) ==
    LET cf == IF Truthy(reqCf) THEN reqCf ELSE Obj(EmptyProps)
    IN  [country |-> IF TypeOf(Get(cf, K_country)) = "string"
                     THEN Get(cf, K_country) ELSE Null,
         stateCode |-> IF TypeOf(Get(cf, K_regionCode)) = "string"
                       THEN Get(cf, K_regionCode) ELSE Null]

US_LABEL == <<"U", ".", "S", ".">>

\* A property read that throws leaves the function with that error.
chooseNaepRecord(data, country, stateCode) ==
    LET national == Get(Get(data, K_national), K_US)
        nationalRecord == IF IsThrown(national) THEN national
                          ELSE [scopeLabel |-> Str(US_LABEL),
                                value |-> national,
                                isNational |-> TRUE]
    IN  IF country = Str(K_US) /\ Truthy(stateCode)
        THEN LET value == Get(Get(data, K_states), stateCode.s)
                 name == Get(STATE_NAME, stateCode.s)
             IN  IF IsThrown(value) THEN value
                 ELSE IF Truthy(value)
                 THEN [scopeLabel |-> IF name.t \in {"undefined", "null"}
                                      THEN stateCode ELSE name,
                       value |-> value,
                       isNational |-> FALSE]
                 ELSE nationalRecord
        ELSE nationalRecord

(***************************************************************************)
(* Ratio text -> image key                                                 *)
(***************************************************************************)
W_out == <<"o", "u", "t">>
W_of == <<"o", "f">>

\* text.match(/^(\d+)\s+out\s+of\s+(\d+)$/): the two captured groups, or
\* <<>> when the text does not match.
RatioMatch(text) ==
    LET a == RunEnd(text, 1, DigitChars)
        b == RunEnd(text, a, SpaceChars)
        c == b + Len(W_out)
        d == RunEnd(text, c, SpaceChars)
        e == d + Len(W_of)
        f == RunEnd(text, e, SpaceChars)
    IN  IF /\ a > 1
           /\ b > a
           /\ LitAt(text, b, W_out)
           /\ d > c
           /\ LitAt(text, d, W_of)
           /\ f > e
           /\ RunEnd(text, f, DigitChars) > f
           /\ RunEnd(text, f, DigitChars) = Len(text) + 1
        THEN <<SubSeq(text, 1, a - 1), SubSeq(text, f, Len(text))>>
        ELSE <<>>

\* A mapping that looks at the numerator only.
ratioTextToImageKey_numeratorOnly(text) ==
    LET m == RatioMatch(text)
    IN  IF m = <<>> THEN "null"
        ELSE LET num == Number(m[1])
             IN  IF num = 3 THEN "three"
                 ELSE IF num = 7 THEN "seven"
                 ELSE IF num = 8 THEN "eight"
                 ELSE IF num = 9 THEN "nine"
                 ELSE "null"

\* The image key, or "null".
ratioTextToImageKey(text) ==
    LET m == RatioMatch(text)
    IN  IF m = <<>> THEN "null"
        ELSE LET num == Number(m[1])
                 den == Number(m[2])
             IN  IF num = 3 /\ den = 4 THEN "three"
                 ELSE IF num = 7 /\ den = 10 THEN "seven"
                 ELSE IF num = 8 /\ den = 10 THEN "eight"
                 ELSE IF num = 9 /\ den = 10 THEN "nine"
                 ELSE "null"

(***************************************************************************)
(* HTML templates                                                          *)
(***************************************************************************)
BASE_HEADERS ==
    ("Content-Type" :> "text/html; charset=utf-8") @@
    ("Cache-Control" :> "private, no-store") @@
    ("Referrer-Policy" :> "same-origin") @@
    ("X-Content-Type-Options" :> "nosniff") @@
    ("Content-Security-Policy" :>
        "default-src 'none'; img-src 'self' data:; style-src 'self' 'unsafe-inline'; base-uri 'none'; form-action 'none'")

\* baseHeaders(extra): the spread of extra comes last, so it wins.
baseHeaders(extra) == extra @@ BASE_HEADERS

NoExtra == [k \in {} |-> ""]

RECURSIVE ReplaceAll(_, _, _)
\* s.replaceAll(c, rep) for a one-character pattern c
ReplaceAll(s, c, rep) ==
    IF s = <<>> THEN <<>>
    ELSE (IF Head(s) = c THEN rep ELSE <<Head(s)>>) \o ReplaceAll(Tail(s), c, rep)

E_amp == <<"&", "a", "m", "p", ";">>
E_lt == <<"&", "l", "t", ";">>
E_gt == <<"&", "g", "t", ";">>
E_quot == <<"&", "q", "u", "o", "t", ";">>

\* An escapeHtml that leaves < as it is.
escapeHtml_keepsLt(s) ==
    ReplaceAll(ReplaceAll(ReplaceAll(s, "&", E_amp), ">", E_gt), "\"", E_quot)

escapeHtml(s) ==
    ReplaceAll(ReplaceAll(ReplaceAll(ReplaceAll(s, "&", E_amp), "<", E_lt), ">", E_gt), "\"", E_quot)

\* s.indexOf(sep), 1-based; 0 when sep does not occur.
IndexOf(s, sep) ==
    IF \E i \in 1..Len(s) : LitAt(s, i, sep)
    THEN CHOOSE i \in 1..Len(s) :
            LitAt(s, i, sep) /\ \A j \in 1..(i - 1) : ~LitAt(s, j, sep)
    ELSE 0

RECURSIVE Split(_, _)
\* s.split(sep) for a non-empty separator
Split(s, sep) ==
    LET i == IndexOf(s, sep)
    IN  IF i = 0 THEN <<s>>
        ELSE <<SubSeq(s, 1, i - 1)>> \o Split(SubSeq(s, i + Len(sep), Len(s)), sep)

META_ROBOTS == "<meta name=\"robots\" content=\"noindex\" />"

layoutHTML(title, body, noindex) ==
    <<"<!doctype html><html lang=\"en\"><head><meta charset=\"utf-8\" /><meta name=\"viewport\" content=\"width=device-width,initial-scale=1\" /><title>">>
    \o escapeHtml(title)
    \o <<"</title>">>
    \o (IF noindex THEN <<META_ROBOTS>> ELSE <<>>)
    \o <<"<style>...</style></head><body>">>
    \o body
    \o <<"</body></html>">>

HOME_SENTENCE == <<" ", "8", "t", "h", " ", "g", "r", "a", "d", "e", "r", "s", " ", "a", "r", "e", " ", "b", "e", "l", "o", "w", " ", "p", "r", "o", "f", "i", "c", "i", "e", "n", "t", " ", "i", "n", " ", "m", "a", "t", "h", ".">>

\* homeHTML reads fragment.split(" out of ")[1] and calls escapeHtml on it
\* and on the label: a missing part or a label that is no string throws a
\* TypeError.
homeHTMLThrows(fragment, label) ==
    \/ Len(Split(fragment, OUT_OF)) < 2
    \/ label.t # "string"

homeHTML(fragment, label, imageHTML) ==
    LET title == fragment \o <<" ">> \o label.s \o HOME_SENTENCE
        body ==
            <<"<main class=\"wrap\" role=\"main\"><section class=\"card hero\"><h1 class=\"hero-line\"><span class=\"num\">">>
            \o escapeHtml(Split(fragment, OUT_OF)[1])
            \o <<"</span> <span class=\"small\">out of</span> <span class=\"num\">">>
            \o escapeHtml(Split(fragment, OUT_OF)[2])
            \o <<"</span> ">>
            \o escapeHtml(label.s)
            \o <<" 8th graders are below proficient in math.</h1>",
                 "<p class=\"lede\">They are deep down a road of a lifetime of lost potential.</p>",
                 "<a class=\"btn\" href=\"#how\" aria-describedby=\"ip-note\">See How</a>",
                 "<p id=\"ip-note\" class=\"note\">Detected via IP.</p></section>">>
            \o imageHTML
            \o <<"<section id=\"how\" class=\"card stack\">...</section></main>">>
    IN  layoutHTML(title, body, FALSE)

INVESTOR_TITLE == <<"M", "a", "t", "h", " ", "C", "o", "T", "e", "a", "c", "h", "e", "r", " ", "U+2014", " ", "I", "n", "v", "e", "s", "t", "o", "r", " ", "N", "o", "t", "e", "s">>

investorHTML ==
    layoutHTML(INVESTOR_TITLE,
        <<"<main class=\"wrap\" role=\"main\"><section class=\"card hero\">",
          "<h1 class=\"hero-line\">Investor Overview</h1>",
          "<p class=\"lede\">This page is intentionally not linked from the homepage.</p>",
          "</section><section class=\"card stack\">...</section></main>">>,
        TRUE)

NOT_FOUND_TITLE == <<"N", "o", "t", " ", "F", "o", "u", "n", "d">>

notFoundHTML ==
    layoutHTML(NOT_FOUND_TITLE,
        <<"<main class=\"wrap\" role=\"main\"><section class=\"card hero\">",
          "<h1 class=\"hero-line\">Not Found</h1>",
          "<p class=\"lede\">The page you requested does not exist.</p></section></main>">>,
        FALSE)

ALT_SUFFIX == <<" ", "8", "t", "h", " ", "g", "r", "a", "d", "e", "r", "s", " ", "b", "e", "l", "o", "w", " ", "p", "r", "o", "f", "i", "c", "i", "e", "n", "t", " ", "U+2014", " ", "v", "i", "s", "u", "a", "l", "i", "z", "a", "t", "i", "o", "n">>

\* buildImageBlockHTML(key, alt); src is "/images/" + key + ".webp", key
\* being one of the four fixed image keys.
buildImageBlockHTML(key, alt) ==
    <<"<div class=\"img-wrap\" role=\"figure\"><img src=\"/images/", key, ".webp\" alt=\"">>
    \o escapeHtml(alt)
    \o <<"\" loading=\"lazy\" decoding=\"async\" /></div>">>

TEMP_ERROR_TITLE == <<"T", "e", "m", "p", "o", "r", "a", "r", "y", " ", "E", "r", "r", "o", "r">>

\* The body of the handler's catch block.
errorHTML ==
    layoutHTML(TEMP_ERROR_TITLE,
        <<"<main class=\"wrap\" role=\"main\"><section class=\"card hero\">",
          "<h1 class=\"hero-line\">Temporary Error</h1>",
          "<p class=\"lede\">Falling back to the U.S. number.</p></section></main>">>,
        FALSE)

Response(status, body, headers) ==
    [status |-> status, body |-> body, headers |-> headers]

\* A catch block that answers 503.
catchResponse_503 == Response(503, errorHTML, baseHeaders(NoExtra))

\* The response of the handler's catch block.
catchResponse == Response(200, errorHTML, baseHeaders(NoExtra))

\* A method check that lets the request fall through to the 404.
methodNotAllowedResponse_fallthrough ==
    Response(404, notFoundHTML, baseHeaders(NoExtra))

methodNotAllowedResponse ==
    Response(405, <<"Method Not Allowed">>, baseHeaders(NoExtra))

\* An investor response without the X-Robots-Tag header.
investorResponse_indexed == Response(200, investorHTML, baseHeaders(NoExtra))

investorResponse ==
    Response(200, investorHTML, baseHeaders("X-Robots-Tag" :> "noindex"))

\* A fallthrough that answers the not-found page with status 200.
notFoundResponse_200 == Response(200, notFoundHTML, baseHeaders(NoExtra))

notFoundResponse == Response(404, notFoundHTML, baseHeaders(NoExtra))

homeResponse(fragment, label, imageHTML) ==
    Response(200, homeHTML(fragment, label, imageHTML), baseHeaders(NoExtra))

(***************************************************************************)
(* Inputs: naep.json documents, asset responses, requests                  *)
(***************************************************************************)
T_3_4 == <<"3", " ", "o", "u", "t", " ", "o", "f", " ", "4">>
T_7_10 == <<"7", " ", "o", "u", "t", " ", "o", "f", " ", "1", "0">>
T_8_10 == <<"8", " ", "o", "u", "t", " ", "o", "f", " ", "1", "0">>
T_9_10 == <<"9", " ", "o", "u", "t", " ", "o", "f", " ", "1", "0">>
T_5_12 == <<"5", " ", "o", "u", "t", " ", "o", "f", " ", "1", "2">>
T_03_4 == <<"0", "3", " ", "o", "u", "t", " ", "o", "f", " ", "4">>
T_3_10 == <<"3", " ", "o", "u", "t", " ", "o", "f", " ", "1", "0">>
T_7_4 == <<"7", " ", "o", "u", "t", " ", "o", "f", " ", "4">>

C_SC == <<"S", "C">>
C_NY == <<"N", "Y">>
C_ZZ == <<"Z", "Z">>
C_LtAmp == <<"<", "&">>
C_QuotGt == <<"\"", ">">>
C_CA == <<"C", "A">>

Rec(text) == Obj(K_text :> text)
Doc(us, states) ==
    Obj((K_national :> Obj(K_US :> us)) @@ (K_states :> Obj(states)))

DocA ==
    Doc(Rec(Str(T_7_10)),
        (C_SC :> Rec(Str(T_8_10))) @@ (C_ZZ :> Rec(Str(T_9_10)))
        @@ (C_LtAmp :> Rec(Str(T_3_4))) @@ (C_QuotGt :> Rec(Str(T_5_12))))
DocB == Doc(Rec(Str(T_5_12)), (C_NY :> Rec(Str(T_7_4))))
DocC == Doc(Rec(Str(T_03_4)), (C_SC :> Rec(Str(T_3_10))))

\* Documents that parse as JSON; ValidDocs are the well-formed ones among
\* them, the others each break one rule of the schema.
ValidDocs == {DocA, DocB, DocC}
BrokenDocs ==
    { Null,
      Str(T_7_10),
      Obj(K_states :> Obj(EmptyProps)),
      Obj((K_national :> Obj(EmptyProps)) @@ (K_states :> Obj(EmptyProps))),
      Doc(Obj(EmptyProps), EmptyProps),
      Doc(Rec(Num(7)), EmptyProps),
      Doc(Rec(Str(<<"7", " ", "o", "f", " ", "1", "0">>)), EmptyProps),
      Doc(Rec(Str(<<"7", " ", " ", "o", "u", "t", " ", "o", "f", " ", "1", "0">>)), EmptyProps),
      Doc(Rec(Str(<<"7", " ", "o", "u", "t", " ", "o", "f", " ", "1", "0", "\n">>)), EmptyProps),
      Doc(Rec(Str(<<" ", "7", " ", "o", "u", "t", " ", "o", "f", " ", "1", "0">>)), EmptyProps),
      Obj(K_national :> Obj(K_US :> Rec(Str(T_7_10)))),
      Obj((K_national :> Obj(K_US :> Rec(Str(T_7_10)))) @@ (K_states :> Null)),
      Doc(Rec(Str(T_7_10)), (<<"S", "C", "X">> :> Rec(Str(T_8_10)))),
      Doc(Rec(Str(T_7_10)), (<<"S">> :> Rec(Str(T_8_10)))),
      Doc(Rec(Str(T_7_10)), (K_constructor :> Rec(Str(T_8_10)))),
      Doc(Rec(Str(T_7_10)), (C_SC :> Rec(Str(<<"8", " ", "o", "u", "t", " ", "o", "f", " ", "t", "e", "n">>)))),
      Doc(Rec(Str(T_7_10)), (C_SC :> Rec(Str(T_8_10))) @@ (C_NY :> Null)),
      Doc(Rec(Str(T_7_10)), (C_SC :> Obj(EmptyProps))) }
Docs == ValidDocs \cup BrokenDocs

\* What env.ASSETS.fetch("https://assets.local/naep.json") can answer: the
\* fetch rejects, a status that is not 2xx, or 200 with a body that is JSON
\* text of some document or is no JSON at all.
NaepResponses ==
    {[kind |-> "threw", ok |-> FALSE, status |-> 0, json |-> Undefined]}
    \cup {[kind |-> "response", ok |-> FALSE, status |-> s, json |-> Undefined] :
            s \in {404, 500}}
    \cup {[kind |-> "response", ok |-> TRUE, status |-> 200, json |-> d] : d \in Docs}
    \cup {[kind |-> "garbage", ok |-> TRUE, status |-> 200, json |-> Undefined]}

\* What the image probe's fetches can answer.
HeadOutcomes == {"ok", "405", "notok", "threw"}
RangeOutcomes == {"ok", "notok", "threw"}

Cf(country, regionCode) ==
    Obj((K_country :> country) @@ (K_regionCode :> regionCode))

\* request.cf
CfInputs ==
    { Undefined,
      Cf(Str(K_US), Str(C_SC)),
      Cf(Str(K_US), Str(C_NY)),
      Cf(Str(K_US), Str(C_ZZ)),
      Cf(Str(K_US), Str(C_LtAmp)),
      Cf(Str(K_US), Str(C_QuotGt)),
      Cf(Str(K_US), Str(K_constructor)),
      Cf(Str(K_US), Str(<<>>)),
      Cf(Str(K_US), Num(7)),
      Obj(K_country :> Str(K_US)),
      Cf(Str(C_CA), Str(C_SC)) }

Methods == {"GET", "POST", "HEAD"}
Paths == {"/", "/investor", "/investor/", "/index.html"}

\* The number of requests a run receives.
MaxRequests == 3
\* The invocations of the handler that are in flight at a time.
Slots == {1, 2}

(***************************************************************************)
(* State                                                                   *)
(***************************************************************************)
VARIABLES
    NAEP_DATA_PROMISE,  \* the module-level cache: null, or a promise
    loader,             \* the async function whose promise is cached
    reqs,               \* the invocations of the fetch handler
    assetFetches,       \* the calls of env.ASSETS.fetch made so far
    arrived             \* the number of requests received so far

vars == <<NAEP_DATA_PROMISE, loader, reqs, assetFetches, arrived>>

NoChoice == [scopeLabel |-> Undefined, value |-> Undefined, isNational |-> FALSE]
NoResponse == Response(0, <<>>, NoExtra)

IdleReq ==
    [pc |-> "idle", method |-> "", path |-> "", cf |-> Undefined,
     chosen |-> NoChoice, key |-> "null", head |-> "none", range |-> "none",
     exists |-> "none", response |-> NoResponse]

\* new Error(message); the message is the sequence of its parts.
JsError(message) == [t |-> "error", message |-> message]

Init ==
    /\ NAEP_DATA_PROMISE = [state |-> "null", value |-> Undefined]
    /\ loader = [pc |-> "idle", json |-> Undefined, garbage |-> FALSE]
    /\ reqs = [r \in Slots |-> IdleReq]
    /\ assetFetches = [naep |-> 0, head |-> 0, range |-> 0]
    /\ arrived = 0

\* A request arrives and the runtime invokes the handler for it (in the
\* first free slot).
Arrives(r) ==
    /\ arrived < MaxRequests
    /\ reqs[r].pc = "idle"
    /\ \A q \in Slots : q < r => reqs[q].pc # "idle"
    /\ arrived' = arrived + 1

\* A branch that answers without reading request.cf.
Finish(r, method, path, response) ==
    reqs' = [reqs EXCEPT ![r] =
        [@ EXCEPT !.pc = "done", !.method = method, !.path = path,
                  !.response = response]]

(***************************************************************************)
(* The fetch handler, up to its first await                                *)
(***************************************************************************)
\* request.method !== "GET"
FetchMethodNotAllowed(r, method, path) ==
    /\ Arrives(r)
    /\ method # "GET"
    /\ Finish(r, method, path, methodNotAllowedResponse)
    /\ UNCHANGED <<NAEP_DATA_PROMISE, loader, assetFetches>>

\* url.pathname === "/investor"
FetchInvestor(r) ==
    /\ Arrives(r)
    /\ Finish(r, "GET", "/investor", investorResponse)
    /\ UNCHANGED <<NAEP_DATA_PROMISE, loader, assetFetches>>

\* the fallthrough
FetchNotFound(r, path) ==
    /\ Arrives(r)
    /\ path \notin {"/", "/investor"}
    /\ Finish(r, "GET", path, notFoundResponse)
    /\ UNCHANGED <<NAEP_DATA_PROMISE, loader, assetFetches>>

\* A loadNaep that does not consult the cache.
loadNaepStartsLoad_uncached(promise) == TRUE

\* loadNaep's test: if (!NAEP_DATA_PROMISE)
loadNaepStartsLoad(promise) == promise.state = "null"

\* url.pathname === "/": the call of loadNaep.  When there is no promise yet
\* the async function is started, which runs to its first await, the fetch
\* of naep.json.
FetchHome(r, cf) ==
    /\ Arrives(r)
    /\ reqs' = [reqs EXCEPT ![r] =
            [@ EXCEPT !.pc = "awaitData", !.method = "GET", !.path = "/", !.cf = cf]]
    /\ IF loadNaepStartsLoad(NAEP_DATA_PROMISE)
       THEN /\ NAEP_DATA_PROMISE' = [state |-> "pending", value |-> Undefined]
            /\ loader' = [pc |-> "fetching", json |-> Undefined, garbage |-> FALSE]
            /\ assetFetches' = [assetFetches EXCEPT !.naep = @ + 1]
       ELSE UNCHANGED <<NAEP_DATA_PROMISE, loader, assetFetches>>

(***************************************************************************)
(* The async function inside loadNaep                                      *)
(***************************************************************************)
LoaderDone == [pc |-> "done", json |-> Undefined, garbage |-> FALSE]

\* The fetch of naep.json settles: a rejection or !res.ok throws, otherwise
\* the function awaits res.json().
LoaderFetchSettles(res) ==
    /\ loader.pc = "fetching"
    /\ IF res.kind = "threw"
       THEN /\ NAEP_DATA_PROMISE' = [state |-> "rejected", value |-> JsError(<<"fetch failed">>)]
            /\ loader' = LoaderDone
       ELSE IF ~res.ok
       THEN /\ NAEP_DATA_PROMISE' = [state |-> "rejected",
                                     value |-> JsError(<<"Failed to load naep.json: ",
                                                       ToString(res.status)>>)]
            /\ loader' = LoaderDone
       ELSE /\ loader' = [pc |-> "parsing", json |-> res.json,
                          garbage |-> (res.kind = "garbage")]
            /\ UNCHANGED NAEP_DATA_PROMISE
    /\ UNCHANGED <<reqs, assetFetches, arrived>>

\* res.json() settles: a body that is no JSON rejects, a document that
\* fails validateData throws, otherwise the promise is fulfilled with it.
LoaderJsonSettles ==
    /\ loader.pc = "parsing"
    /\ NAEP_DATA_PROMISE' =
        IF loader.garbage
        THEN [state |-> "rejected", value |-> JsError(<<"SyntaxError">>)]
        ELSE IF ~validateData(loader.json)
        THEN [state |-> "rejected", value |-> JsError(<<"naep.json failed schema validation">>)]
        ELSE [state |-> "fulfilled", value |-> loader.json]
    /\ loader' = LoaderDone
    /\ UNCHANGED <<reqs, assetFetches, arrived>>

(***************************************************************************)
(* The fetch handler for "/", after the dataset                            *)
(***************************************************************************)
\* The rendering at the end of the "/" branch; exists is what
\* key && (await imageExists(env, key)) evaluated to.
renderHome(chosen, key, exists) ==
    LET fragment == Get(chosen.value, K_text).s
        scopeLabel == chosen.scopeLabel
        alt == fragment \o <<" ">> \o scopeLabel.s \o ALT_SUFFIX
    IN  IF homeHTMLThrows(fragment, scopeLabel) THEN catchResponse
        ELSE homeResponse(fragment, scopeLabel,
                IF exists THEN buildImageBlockHTML(key, alt) ELSE <<>>)

\* await loadNaep(env) settles.  A rejection goes to the catch block.
\* Otherwise the record is chosen (a TypeError there goes to the catch block
\* too); ratioTextToImageKey calls text.match, a TypeError when the chosen
\* value has no string text.  With a key the HEAD
\* probe is sent, without one the page is rendered.
HomeResume(r) ==
    /\ reqs[r].pc = "awaitData"
    /\ NAEP_DATA_PROMISE.state \in {"fulfilled", "rejected"}
    /\ IF NAEP_DATA_PROMISE.state = "rejected"
       THEN /\ reqs' = [reqs EXCEPT ![r] = [@ EXCEPT !.pc = "done", !.response = catchResponse]]
            /\ UNCHANGED assetFetches
       ELSE LET region == resolveRegion(reqs[r].cf)
                chosen == chooseNaepRecord(NAEP_DATA_PROMISE.value,
                                           region.country, region.stateCode)
                fragment == Get(chosen.value, K_text)
                key == ratioTextToImageKey(fragment.s)
            IN  IF IsThrown(chosen)
                THEN /\ reqs' = [reqs EXCEPT ![r] =
                            [@ EXCEPT !.pc = "done", !.response = catchResponse]]
                     /\ UNCHANGED assetFetches
                ELSE IF fragment.t # "string"
                THEN /\ reqs' = [reqs EXCEPT ![r] =
                            [@ EXCEPT !.pc = "done", !.chosen = chosen,
                                      !.response = catchResponse]]
                     /\ UNCHANGED assetFetches
                ELSE IF key # "null"
                THEN /\ reqs' = [reqs EXCEPT ![r] =
                            [@ EXCEPT !.pc = "awaitHead", !.chosen = chosen, !.key = key]]
                     /\ assetFetches' = [assetFetches EXCEPT !.head = @ + 1]
                ELSE /\ reqs' = [reqs EXCEPT ![r] =
                            [@ EXCEPT !.pc = "done", !.chosen = chosen, !.key = key,
                                      !.response = renderHome(chosen, key, FALSE)]]
                     /\ UNCHANGED assetFetches
    /\ UNCHANGED <<NAEP_DATA_PROMISE, loader, arrived>>

(***************************************************************************)
(* imageExists                                                             *)
(***************************************************************************)
\* After the HEAD: "true", "false", "fallback" (the Range GET is sent) or
\* "throw" (the rejection of env.ASSETS.fetch is not caught here).
imageExistsAfterHead(res) ==
    CASE res = "threw" -> "throw"
      [] res = "ok" -> "true"
      [] res = "405" -> "fallback"
      [] OTHER -> "false"

\* After the Range GET: getRes.ok, or the uncaught rejection.
imageExistsAfterRange(getRes) ==
    CASE getRes = "threw" -> "throw"
      [] getRes = "ok" -> "true"
      [] OTHER -> "false"

\* imageExists resumes after its await of the HEAD: it sends the Range GET
\* (status 405), or it returns or throws, which settles the promise the
\* handler awaits.
HeadSettles(r, res) ==
    /\ reqs[r].pc = "awaitHead"
    /\ IF imageExistsAfterHead(res) = "fallback"
       THEN /\ reqs' = [reqs EXCEPT ![r] = [@ EXCEPT !.pc = "awaitRange", !.head = res]]
            /\ assetFetches' = [assetFetches EXCEPT !.range = @ + 1]
       ELSE /\ reqs' = [reqs EXCEPT ![r] =
                    [@ EXCEPT !.pc = "awaitExists", !.head = res,
                              !.exists = imageExistsAfterHead(res)]]
            /\ UNCHANGED assetFetches
    /\ UNCHANGED <<NAEP_DATA_PROMISE, loader, arrived>>

\* imageExists resumes after its await of the Range GET and returns
\* getRes.ok or throws.
RangeSettles(r, getRes) ==
    /\ reqs[r].pc = "awaitRange"
    /\ reqs' = [reqs EXCEPT ![r] =
            [@ EXCEPT !.pc = "awaitExists", !.range = getRes,
                      !.exists = imageExistsAfterRange(getRes)]]
    /\ UNCHANGED <<NAEP_DATA_PROMISE, loader, assetFetches, arrived>>

\* The handler resumes after await imageExists(env, key): a rejection goes
\* to the catch block, otherwise the page is rendered, with the image block
\* when imageExists returned true.
ProbeResume(r) ==
    /\ reqs[r].pc = "awaitExists"
    /\ reqs' = [reqs EXCEPT ![r] =
            [@ EXCEPT !.pc = "done",
                      !.response =
                        IF reqs[r].exists = "throw" THEN catchResponse
                        ELSE renderHome(reqs[r].chosen, reqs[r].key,
                                        reqs[r].exists = "true")]]
    /\ UNCHANGED <<NAEP_DATA_PROMISE, loader, assetFetches, arrived>>

\* The runtime sends the response the handler returned; the invocation and
\* its locals are gone.
Deliver(r) ==
    /\ reqs[r].pc = "done"
    /\ reqs' = [reqs EXCEPT ![r] = IdleReq]
    /\ UNCHANGED <<NAEP_DATA_PROMISE, loader, assetFetches, arrived>>

Next ==
    \/ \E r \in Slots, m \in Methods, p \in Paths : FetchMethodNotAllowed(r, m, p)
    \/ \E r \in Slots : FetchInvestor(r)
    \/ \E r \in Slots, p \in Paths : FetchNotFound(r, p)
    \/ \E r \in Slots, cf \in CfInputs : FetchHome(r, cf)
    \/ \E res \in NaepResponses : LoaderFetchSettles(res)
    \/ LoaderJsonSettles
    \/ \E r \in Slots : HomeResume(r)
    \/ \E r \in Slots, res \in HeadOutcomes : HeadSettles(r, res)
    \/ \E r \in Slots, res \in RangeOutcomes : RangeSettles(r, res)
    \/ \E r \in Slots : ProbeResume(r)
    \/ \E r \in Slots : Deliver(r)

Spec == Init /\ [][Next]_vars

(***************************************************************************)
(* Properties                                                              *)
(***************************************************************************)
HasResponse(r) == reqs[r].pc = "done"
IsHomeRequest(r) == reqs[r].method = "GET" /\ reqs[r].path = "/"
\* The handler of slot r starts in this step.
Starts(r) == reqs[r].pc = "idle" /\ reqs'[r].pc # "idle"
Contains(body, chunk) == \E i \in 1..Len(body) : body[i] = chunk
IsHomePage(resp) ==
    /\ resp.status = 200
    /\ Contains(resp.body, "<p id=\"ip-note\" class=\"note\">Detected via IP.</p></section>")
IsErrorPage(resp) ==
    Contains(resp.body, "<h1 class=\"hero-line\">Temporary Error</h1>")
HasImageBlock(resp) ==
    Contains(resp.body, "\" loading=\"lazy\" decoding=\"async\" /></div>")
\* imageExists returned true for the request of slot r.
ProbeTrue(r) ==
    /\ reqs[r].exists = "true"
    /\ reqs[r].head = "ok" \/ (reqs[r].head = "405" /\ reqs[r].range = "ok")

\* C1: however many GET / requests arrive and however they interleave with
\* the load, naep.json is fetched at most once: the first loadNaep creates
\* the promise, every request that awaits the dataset awaits that promise,
\* and a fulfilled promise is never replaced or changed.
C1_SingleFetch ==
    /\ [](/\ assetFetches.naep <= 1
          /\ assetFetches.naep = (IF NAEP_DATA_PROMISE.state = "null" THEN 0 ELSE 1)
          /\ \A r \in Slots :
                reqs[r].pc = "awaitData" => NAEP_DATA_PROMISE.state # "null")
    /\ [][NAEP_DATA_PROMISE.state = "fulfilled"
            => /\ NAEP_DATA_PROMISE' = NAEP_DATA_PROMISE
               /\ assetFetches'.naep = assetFetches.naep]_vars

\* Two requests await the one pending load, and a third request has come
\* and gone.
C1_Witness ==
    /\ reqs[1].pc = "awaitData"
    /\ reqs[2].pc = "awaitData"
    /\ arrived = 3
    /\ NAEP_DATA_PROMISE.state = "pending"
    /\ assetFetches.naep = 1

\* C2: after a failed load, a later GET / fetches naep.json again.
C2_RetryAfterFailure ==
    [][\A r \in Slots :
        (NAEP_DATA_PROMISE.state = "rejected" /\ Starts(r) /\ reqs'[r].pc = "awaitData")
            => assetFetches'.naep = assetFetches.naep + 1]_vars

\* C3: a GET / is always answered with status 200 and the base headers, and
\* when the load failed, a probe's fetch rejected or the chosen value has no
\* string text, the answer is the "Temporary Error" page: never a 5xx.
C3_ErrorsDegradeTo200 ==
    \A r \in Slots :
        (HasResponse(r) /\ IsHomeRequest(r)) =>
            /\ reqs[r].response.status = 200
            /\ reqs[r].response.headers = BASE_HEADERS
            /\ IsHomePage(reqs[r].response) \/ IsErrorPage(reqs[r].response)
            /\ ( \/ NAEP_DATA_PROMISE.state = "rejected"
                 \/ reqs[r].head = "threw"
                 \/ reqs[r].range = "threw"
                 \/ (reqs[r].chosen # NoChoice
                        /\ Get(reqs[r].chosen.value, K_text).t # "string") )
                => /\ IsErrorPage(reqs[r].response)
                   /\ ~IsHomePage(reqs[r].response)

\* A GET / answered after the load was rejected.
C3_Witness ==
    \E r \in Slots :
        /\ HasResponse(r) /\ IsHomeRequest(r)
        /\ NAEP_DATA_PROMISE.state = "rejected"
        /\ NAEP_DATA_PROMISE.value = JsError(<<"naep.json failed schema validation">>)
        /\ IsErrorPage(reqs[r].response)

\* C4: when the probe fails other than by a HEAD answered 405 (a HEAD or a
\* Range GET that is not OK, or whose fetch rejects), GET / still answers
\* the home page, without the image block.
C4_ProbeFailureKeepsPage ==
    \A r \in Slots :
        ( /\ HasResponse(r) /\ IsHomeRequest(r)
          /\ \/ reqs[r].head \in {"notok", "threw"}
             \/ reqs[r].range \in {"notok", "threw"} )
            => /\ IsHomePage(reqs[r].response)
               /\ ~HasImageBlock(reqs[r].response)

\* C5: a request whose method is not GET is answered at once with status
\* 405 and the body "Method Not Allowed", whatever its path and the state of
\* the cache, and starts no load and no asset fetch.
C5_NonGetIs405 ==
    [][\A r \in Slots :
        (Starts(r) /\ reqs'[r].method # "GET")
            => /\ reqs'[r].pc = "done"
               /\ reqs'[r].response.status = 405
               /\ reqs'[r].response.body = <<"Method Not Allowed">>
               /\ UNCHANGED <<NAEP_DATA_PROMISE, loader, assetFetches>>]_vars

\* A POST to / answered 405 while the dataset is loaded.
C5_Witness ==
    \E r \in Slots :
        /\ HasResponse(r)
        /\ reqs[r].method = "POST" /\ reqs[r].path = "/"
        /\ reqs[r].response.status = 405
        /\ NAEP_DATA_PROMISE.state = "fulfilled"

\* The record the claim C6 describes.
C6_Expected(data, country, stateCode) ==
    IF /\ country = Str(K_US)
       /\ stateCode.t = "string"
       /\ stateCode.s \in DOMAIN Get(data, K_states).o
    THEN [scopeLabel |-> IF stateCode.s \in DOMAIN StateNameTable
                         THEN Str(StateNameTable[stateCode.s]) ELSE stateCode,
          value |-> Get(data, K_states).o[stateCode.s],
          isNational |-> FALSE]
    ELSE [scopeLabel |-> Str(US_LABEL),
          value |-> Get(data, K_national).o[K_US],
          isNational |-> TRUE]

\* C6: chooseNaepRecord returns the state's record, labelled with the state
\* name (or the raw code), exactly when country is "US" and stateCode is a
\* key of data.states, and the national record labelled "U.S." otherwise.
C6_ChoiceByOwnKey ==
    \A r \in Slots :
        reqs[r].chosen # NoChoice =>
            reqs[r].chosen =
                C6_Expected(NAEP_DATA_PROMISE.value,
                            resolveRegion(reqs[r].cf).country,
                            resolveRegion(reqs[r].cf).stateCode)

\* What claim C7 requires of an accepted document.
C7_WellFormed(d) ==
    /\ d.t = "object"
    /\ K_national \in DOMAIN d.o
    /\ d.o[K_national].t = "object"
    /\ K_US \in DOMAIN d.o[K_national].o
    /\ LET us == d.o[K_national].o[K_US]
       IN  /\ us.t = "object"
           /\ K_text \in DOMAIN us.o
           /\ us.o[K_text].t = "string"
           /\ TEXT_RE(us.o[K_text].s)
    /\ K_states \in DOMAIN d.o =>
        /\ d.o[K_states].t = "object"
        /\ \A k \in DOMAIN d.o[K_states].o :
            LET v == d.o[K_states].o[k]
            IN  /\ Len(k) = 2
                /\ v.t = "object"
                /\ K_text \in DOMAIN v.o
                /\ v.o[K_text].t = "string"
                /\ TEXT_RE(v.o[K_text].s)

\* C7: the dataset the promise is fulfilled with has national.US with a
\* text "<integer> out of <integer>" and only two-character state keys with
\* such texts; a document that lacks any of this rejects the promise.
C7_OnlyValidDataset ==
    /\ [](NAEP_DATA_PROMISE.state = "fulfilled" => C7_WellFormed(NAEP_DATA_PROMISE.value))
    /\ [][(loader.pc = "parsing" /\ loader'.pc = "done" /\ ~loader.garbage
              /\ ~C7_WellFormed(loader.json))
            => NAEP_DATA_PROMISE'.state = "rejected"]_vars

\* A document was rejected by the validation, and a request that awaited
\* it got the error page.
C7_Witness ==
    /\ NAEP_DATA_PROMISE = [state |-> "rejected",
                            value |-> JsError(<<"naep.json failed schema validation">>)]
    /\ \E r \in Slots : HasResponse(r) /\ IsHomeRequest(r)

\* The interpolated characters of a page hold no raw <, > or ", and every
\* & starts one of the four entities escapeHtml writes.
C8_NoRawMarkup(body) ==
    \A i \in 1..Len(body) :
        /\ body[i] \notin {"<", ">", "\""}
        /\ body[i] = "&" =>
            \E e \in {E_amp, E_lt, E_gt, E_quot} :
                /\ i + Len(e) - 1 <= Len(body)
                /\ SubSeq(body, i, i + Len(e) - 1) = e

\* C8: in every home page the label and the text appear only escaped, in
\* the title, the headline and the alt attribute.
C8_HomePageEscaped ==
    \A r \in Slots :
        (HasResponse(r) /\ IsHomeRequest(r) /\ IsHomePage(reqs[r].response))
            => C8_NoRawMarkup(reqs[r].response.body)

\* A home page with its image block, for a label and with an alt that
\* hold < and &.
C8_Witness ==
    \E r \in Slots :
        /\ HasResponse(r) /\ IsHomeRequest(r) /\ IsHomePage(reqs[r].response)
        /\ reqs[r].chosen.scopeLabel = Str(C_LtAmp)
        /\ HasImageBlock(reqs[r].response)

\* The image key of each ratio text of the documents, as claim C9 gives it.
C9_ExpectedKey(text) ==
    CASE text \in {T_3_4, T_03_4} -> "three"
      [] text = T_7_10 -> "seven"
      [] text = T_8_10 -> "eight"
      [] text = T_9_10 -> "nine"
      [] OTHER -> "null"

\* C9: the key is "three", "seven", "eight" or "nine" for the ratios 3/4,
\* 7/10, 8/10 and 9/10 and null for every other text, and a home page has
\* an image block only for such a key and a probe that returned true.
C9_ImageOnlyForAllowList ==
    \A r \in Slots :
        /\ (reqs[r].pc \in {"awaitHead", "awaitRange", "awaitExists", "done"}
                /\ reqs[r].chosen # NoChoice
                /\ Get(reqs[r].chosen.value, K_text).t = "string")
            => reqs[r].key = C9_ExpectedKey(Get(reqs[r].chosen.value, K_text).s)
        /\ (HasResponse(r) /\ HasImageBlock(reqs[r].response))
            => /\ reqs[r].key \in {"three", "seven", "eight", "nine"}
               /\ ProbeTrue(r)
               /\ Contains(reqs[r].response.body, reqs[r].key)

\* A home page without image block for the ratio 3 out of 10, which is
\* well-formed and outside the list.
C9_Witness ==
    \E r \in Slots :
        /\ HasResponse(r) /\ IsHomePage(reqs[r].response)
        /\ Get(reqs[r].chosen.value, K_text) = Str(T_3_10)
        /\ reqs[r].key = "null"
        /\ ~HasImageBlock(reqs[r].response)

\* C10: GET /investor is answered at once with status 200, the investor
\* page and X-Robots-Tag: noindex, whatever the state of the cache, and
\* starts no load and no asset fetch.
C10_InvestorStatic ==
    [][\A r \in Slots :
        (Starts(r) /\ reqs'[r].method = "GET" /\ reqs'[r].path = "/investor")
            => /\ reqs'[r].pc = "done"
               /\ reqs'[r].response.status = 200
               /\ Contains(reqs'[r].response.body,
                           "<h1 class=\"hero-line\">Investor Overview</h1>")
               /\ "X-Robots-Tag" \in DOMAIN reqs'[r].response.headers
               /\ reqs'[r].response.headers["X-Robots-Tag"] = "noindex"
               /\ UNCHANGED <<NAEP_DATA_PROMISE, loader, assetFetches>>]_vars

\* The investor page was served while a load is in flight.
C10_Witness ==
    \E r \in Slots :
        /\ HasResponse(r)
        /\ reqs[r].method = "GET" /\ reqs[r].path = "/investor"
        /\ reqs[r].response.status = 200
        /\ NAEP_DATA_PROMISE.state = "pending"

\* C11: a GET whose path is neither "/" nor "/investor" (exactly; so
\* "/investor/" and "/index.html" are unknown) is answered at once with
\* status 404 and a body that holds "Not Found", whatever the state of the
\* cache, and starts no load and no asset fetch.
C11_UnknownPathIs404 ==
    [][\A r \in Slots :
        (Starts(r) /\ reqs'[r].method = "GET"
                   /\ reqs'[r].path \notin {"/", "/investor"})
            => /\ reqs'[r].pc = "done"
               /\ reqs'[r].response.status = 404
               /\ Contains(reqs'[r].response.body,
                           "<h1 class=\"hero-line\">Not Found</h1>")
               /\ UNCHANGED <<NAEP_DATA_PROMISE, loader, assetFetches>>]_vars

\* GET /investor/ was answered 404 before any dataset load was started.
C11_Witness ==
    \E r \in Slots :
        /\ HasResponse(r)
        /\ reqs[r].method = "GET" /\ reqs[r].path = "/investor/"
        /\ reqs[r].response.status = 404
        /\ NAEP_DATA_PROMISE.state = "null"
        /\ assetFetches.naep = 0

=============================================================================
